---- MODULE Spec2Model ----
(***************************************************************************)
(* scripts/generate_multilevel_sensor_constants.py as a state machine.     *)
(*                                                                         *)
(* A string is a sequence of characters (one-character TLA+ strings); a    *)
(* few fixed fragments of the emitted text that hold neither a line break  *)
(* nor anything the script inspects are kept as one symbol each.  A dict   *)
(* is a sequence of [k, v] records with distinct keys, in insertion order. *)
(***************************************************************************)
EXTENDS Integers, Sequences, FiniteSets, TLC

\* ------------------------------------------------------------------------
\* Bounds of the model
\* ------------------------------------------------------------------------
MaxSensors == 2   \* entries of the sensor-type document
MaxGroups  == 1   \* groups of the default-scales document
MaxEntries == 2   \* entries of one scale definition
MaxTail    == 4   \* characters of the previous file after its fixed head

\* ------------------------------------------------------------------------
\* Characters (str methods of Python on the characters the model uses)
\* ------------------------------------------------------------------------
Lowers == <<"a","b","c","d","e","f","g","h","i","j","k","l","m",
            "n","o","p","q","r","s","t","u","v","w","x","y","z">>
Uppers == <<"A","B","C","D","E","F","G","H","I","J","K","L","M",
            "N","O","P","Q","R","S","T","U","V","W","X","Y","Z">>
Digits == <<"0","1","2","3","4","5","6","7","8","9">>

InSeq(s, c)  == \E i \in 1..Len(s) : s[i] = c
IndexOf(s, c) == CHOOSE i \in 1..Len(s) : s[i] = c

IsLower(c) == InSeq(Lowers, c)
IsUpper(c) == InSeq(Uppers, c)
IsDigit(c) == InSeq(Digits, c)
IsAlnum(c) == IsLower(c) \/ IsUpper(c) \/ IsDigit(c)

LowerChar(c) == IF IsUpper(c) THEN Lowers[IndexOf(Uppers, c)] ELSE c
UpperChar(c) == IF IsLower(c) THEN Uppers[IndexOf(Lowers, c)] ELSE c

\* Code point of a character, as far as the script orders strings by it.
Ord(c) ==
  IF IsUpper(c) THEN 64 + IndexOf(Uppers, c)
  ELSE IF IsLower(c) THEN 96 + IndexOf(Lowers, c)
  ELSE IF IsDigit(c) THEN 47 + IndexOf(Digits, c)
  ELSE IF c = " " THEN 32
  ELSE IF c = "." THEN 46
  ELSE IF c = "_" THEN 95
  ELSE 0

\* str < str
RECURSIVE LexLess(_, _)
LexLess(a, b) ==
  IF b = <<>> THEN FALSE
  ELSE IF a = <<>> THEN TRUE
  ELSE IF Ord(Head(a)) # Ord(Head(b)) THEN Ord(Head(a)) < Ord(Head(b))
  ELSE LexLess(Tail(a), Tail(b))

\* sorted(list of str)
RECURSIVE InsertSorted(_, _)
InsertSorted(x, s) ==
  IF s = <<>> THEN <<x>>
  ELSE IF LexLess(x, Head(s)) THEN <<x>> \o s
  ELSE <<Head(s)>> \o InsertSorted(x, Tail(s))

RECURSIVE sorted(_)
sorted(s) ==
  IF s = <<>> THEN <<>> ELSE InsertSorted(s[Len(s)], sorted(SubSeq(s, 1, Len(s) - 1)))

\* str.upper()
Upper(s) == [i \in 1..Len(s) |-> UpperChar(s[i])]

\* str.replace(old, new) for a one-character old; new is a string
RECURSIVE Replace(_, _, _)
Replace(s, old, new) ==
  IF s = <<>> THEN <<>>
  ELSE (IF Head(s) = old THEN new ELSE <<Head(s)>>) \o Replace(Tail(s), old, new)

\* str.title(): a cased letter is upper-cased after an uncased character and
\* lower-cased after a cased one.
RECURSIVE TitleFrom(_, _)
TitleFrom(s, prevCased) ==
  IF s = <<>> THEN <<>>
  ELSE LET c == Head(s)
           cased == IsLower(c) \/ IsUpper(c)
       IN <<IF prevCased THEN LowerChar(c) ELSE UpperChar(c)>> \o TitleFrom(Tail(s), cased)

Title(s) == TitleFrom(s, FALSE)

\* str(int)
RECURSIVE Decimal(_)
Decimal(n) ==
  IF n < 10 THEN <<Digits[n + 1]>> ELSE Decimal(n \div 10) \o <<Digits[(n % 10) + 1]>>

\* int(text, 16): an optional "0x" prefix, then one or more hex digits
HexDigits == <<"0","1","2","3","4","5","6","7","8","9","a","b","c","d","e","f">>

HexBody(text) ==
  IF Len(text) >= 2 /\ text[1] = "0" /\ LowerChar(text[2]) = "x"
  THEN SubSeq(text, 3, Len(text)) ELSE text

IsHex(text) ==
  LET b == HexBody(text)
  IN b # <<>> /\ \A i \in 1..Len(b) : InSeq(HexDigits, LowerChar(b[i]))

RECURSIVE HexValue(_)
HexValue(b) ==
  IF b = <<>> THEN 0
  ELSE 16 * HexValue(SubSeq(b, 1, Len(b) - 1)) + (IndexOf(HexDigits, LowerChar(b[Len(b)])) - 1)

ParseHex(text) == HexValue(HexBody(text))

\* ------------------------------------------------------------------------
\* Name normalisation
\* ------------------------------------------------------------------------

\* re.sub(r"\([^)]*\)", "", text): every "(" that has a ")" after it is
\* removed together with everything up to the first ")" that follows.
RECURSIVE remove_parenthesis(_)
remove_parenthesis(text) ==
  IF text = <<>> THEN <<>>
  ELSE IF Head(text) = "(" /\ \E j \in 2..Len(text) : text[j] = ")"
       THEN LET j == CHOOSE j \in 2..Len(text) :
                       text[j] = ")" /\ \A k \in 2..(j - 1) : text[k] # ")"
            IN remove_parenthesis(SubSeq(text, j + 1, Len(text)))
       ELSE <<Head(text)>> \o remove_parenthesis(Tail(text))

\* slugify(name, separator="_"): lower case, every run of characters that are
\* not letters or digits becomes one separator, none at either end.
RECURSIVE DropLeading(_)
DropLeading(s) ==
  IF s = <<>> \/ IsAlnum(Head(s)) THEN s ELSE DropLeading(Tail(s))

RECURSIVE SlugRest(_)
SlugRest(s) ==
  IF s = <<>> THEN <<>>
  ELSE IF IsAlnum(Head(s)) THEN <<LowerChar(Head(s))>> \o SlugRest(Tail(s))
  ELSE LET r == DropLeading(s) IN IF r = <<>> THEN <<>> ELSE <<"_">> \o SlugRest(r)

slugify(name) == SlugRest(DropLeading(name))

enum_name_format(name, should_remove_parenthesis) ==
  Upper(slugify(IF should_remove_parenthesis THEN remove_parenthesis(name) ELSE name))

normalize_name(name) == Title(Replace(enum_name_format(name, TRUE), "_", <<" ">>))

format_for_class_name(name) ==
  Replace(normalize_name(name), " ", <<>>) \o <<"S","c","a","l","e">>

\* ------------------------------------------------------------------------
\* dict: a sequence of [k |-> key, v |-> value], distinct keys, insertion order
\* ------------------------------------------------------------------------
DictHas(d, key) == \E i \in 1..Len(d) : d[i].k = key
DictGet(d, key) == d[CHOOSE i \in 1..Len(d) : d[i].k = key].v

\* d[key] = value: an existing key keeps its place and takes the new value
DictSet(d, key, value) ==
  IF DictHas(d, key)
  THEN [i \in 1..Len(d) |-> IF d[i].k = key THEN [k |-> key, v |-> value] ELSE d[i]]
  ELSE Append(d, [k |-> key, v |-> value])

RECURSIVE InsertByKey(_, _)
InsertByKey(x, d) ==
  IF d = <<>> THEN <<x>>
  ELSE IF LexLess(x.k, Head(d).k) THEN <<x>> \o d
  ELSE <<Head(d)>> \o InsertByKey(x, Tail(d))

\* dict(sorted(d.items(), key=lambda kv: kv[0]))
RECURSIVE SortDict(_)
SortDict(d) ==
  IF d = <<>> THEN <<>> ELSE InsertByKey(d[Len(d)], SortDict(SubSeq(d, 1, Len(d) - 1)))

\* ------------------------------------------------------------------------
\* Model build
\* ------------------------------------------------------------------------
\* A raw scale definition is a sequence of [id |-> hex key, label |-> str];
\* a raw sensor is [id |-> hex key, label |-> str, scales |-> ref] where ref is
\* [str |-> TRUE, text |-> str, def |-> <<>>] or
\* [str |-> FALSE, text |-> <<>>, def |-> raw scale definition].

ScalesPrefix == "$SCALES:"   \* the literal "$SCALES:", one symbol

RECURSIVE ScaleDefFold(_, _)
ScaleDefFold(scale_definitions, scale_def_) ==
  IF scale_definitions = <<>> THEN scale_def_
  ELSE LET e == Head(scale_definitions)
       IN ScaleDefFold(Tail(scale_definitions),
                       DictSet(scale_def_, enum_name_format(e.label, TRUE), ParseHex(e.id)))

\* int(scale_id, 16) raises ValueError on a key that is no hex number
ScaleDefRaises(scale_definitions) ==
  \E i \in 1..Len(scale_definitions) : ~IsHex(scale_definitions[i].id)

normalize_scale_definition(scale_definitions) ==
  SortDict(ScaleDefFold(scale_definitions, <<>>))

\* scales = {normalize_name(name): normalize_scale_definition(def) for ...}
RECURSIVE DefaultScalesFold(_, _)
DefaultScalesFold(groups, acc) ==
  IF groups = <<>> THEN acc
  ELSE DefaultScalesFold(Tail(groups),
         DictSet(acc, normalize_name(Head(groups).name),
                 normalize_scale_definition(Head(groups).def)))

BuildDefaultScales(groups) == DefaultScalesFold(groups, <<>>)

DefaultScalesRaise(groups) == \E i \in 1..Len(groups) : ScaleDefRaises(groups[i].def)

\* the sensor ids whose label keeps its parenthesised text
KeepParenthesisIds == {87, 88}

SensorName(props) ==
  enum_name_format(props.label, ParseHex(props.id) \notin KeepParenthesisIds)

\* one pass of the loop over sensor_types.items(), when nothing raises
SensorsAfter(sensors_, props) ==
  LET sensor_name == SensorName(props)
      scale == IF props.scales.str
               THEN normalize_name(Replace(props.scales.text, ScalesPrefix, <<>>))
               ELSE normalize_name(sensor_name)
  IN DictSet(sensors_, sensor_name,
             [id |-> ParseHex(props.id), label |-> props.label, scale |-> scale])

ScalesAfter(scales_, props) ==
  IF props.scales.str THEN scales_
  ELSE DictSet(scales_, SensorName(props), normalize_scale_definition(props.scales.def))

SensorRaises(props) ==
  ~IsHex(props.id) \/ (~props.scales.str /\ ScaleDefRaises(props.scales.def))

\* ------------------------------------------------------------------------
\* Rendering: a line is a string, the file's lines a sequence of lines
\* ------------------------------------------------------------------------
Marker == "**END OF AUTOGENERATED CONTENT**"
DashLine == <<"# ----------------------------------------------------------------------------------- #">>
SENSOR_TYPE_URL ==
  "https://github.com/zwave-js/node-zwave-js/blob/master/packages/config/config/sensorTypes.json"

HeaderLines ==
  << <<"\"\"\"Constants for the Multilevel Sensor CC.\"\"\"">>,
     <<>>,
     DashLine,
     <<"# **BEGINNING OF AUTOGENERATED CONTENT** (TO ADD ADDITIONAL MANUAL CONTENT, LOOK FOR  #">>,
     <<"# THE \"END OF AUTOGENERATED CONTENT\" COMMENT BLOCK AND ADD YOUR CODE BELOW IT)        #">>,
     DashLine,
     <<>>,
     <<"from __future__ import annotations">>,
     <<>>,
     <<"from enum import IntEnum">>,
     <<"CC_SPECIFIC_SCALE = \"scale\"">>,
     <<"CC_SPECIFIC_SENSOR_TYPE = \"sensorType\"">>,
     <<>> >>

EndBlockLines ==
  << <<>>,
     DashLine,
     <<"# ", Marker, " (DO NOT EDIT/REMOVE THIS COMMENT BLOCK AND DO NOT  #">>,
     <<"# EDIT ANYTHING ABOVE IT. IF A NEW IMPORT IS NEEDED, UPDATE THE LINES AROUND 135      #">>,
     <<"# IN scripts/generate_multilevel_sensor_constants.py THEN RE-RUN THE SCRIPT. ALL      #">>,
     <<"# LINES WRITTEN BELOW THIS BLOCK WILL BE PRESERVED AS LONG AS THIS BLOCK REMAINS)     #">>,
     DashLine,
     <<>> >>

\* enum_ids: dict of member name -> int (get_id_func already applied).
\* The docstring's .replace("  ", " ") closes the gap an empty docstring_info leaves.
generate_int_enum_class_definition(class_name, enum_ids, enum_ref_url, docstring_info, base_class) ==
  << <<"class ">> \o class_name \o <<"(">> \o base_class \o <<"):">>,
     <<"    ", "\"\"\"Enum for known">>
       \o (IF docstring_info = <<>> THEN <<>> ELSE <<" ">> \o docstring_info)
       \o <<" multilevel sensor types.\"\"\"">> >>
  \o (IF enum_ref_url = <<>> THEN <<>> ELSE << <<"    # ">> \o enum_ref_url >>)
  \o [i \in 1..Len(enum_ids) |->
        <<"    ">> \o enum_ids[i].k \o <<" = ">> \o Decimal(enum_ids[i].v)]

generate_int_enum_base_class(class_name, docstring) ==
  << <<"class ">> \o class_name \o <<"(IntEnum):">>,
     <<"\t">> \o docstring >>

SensorIds(sensors_) == [i \in 1..Len(sensors_) |-> [k |-> sensors_[i].k, v |-> sensors_[i].v.id]]

\* lines 154-188: header, property constants, sensor-type enum, scale base class
SensorLines(sensors_) ==
  HeaderLines
  \o [i \in 1..Len(sensors_) |->
        sensors_[i].k \o <<"_PROPERTY = \"">> \o sensors_[i].v.label \o <<"\"">>]
  \o generate_int_enum_class_definition(
       <<"MultilevelSensorType">>, SensorIds(sensors_), <<SENSOR_TYPE_URL>>, <<>>, <<"IntEnum">>)
  \o generate_int_enum_base_class(
       <<"MultilevelSensorScaleType">>,
       <<"\"\"\"Common base class for multilevel sensor scale enums.\"\"\"">>)

\* lines 191-200: one enum class per scale group, in the table's order
RECURSIVE ScaleClassLines(_)
ScaleClassLines(scales_) ==
  IF scales_ = <<>> THEN <<>>
  ELSE generate_int_enum_class_definition(
         format_for_class_name(Head(scales_).k), Head(scales_).v, <<SENSOR_TYPE_URL>>,
         <<"scales for ">> \o Head(scales_).k, <<"MultilevelSensorScaleType">>)
       \o ScaleClassLines(Tail(scales_))

\* _unit_name_to_enum_map[unit_name].append(ref) on a defaultdict(list)
UnitAppend(map, unit_name, ref) ==
  IF DictHas(map, unit_name)
  THEN DictSet(map, unit_name, Append(DictGet(map, unit_name), ref))
  ELSE DictSet(map, unit_name, <<ref>>)

RECURSIVE UnitsOfGroup(_, _, _)
UnitsOfGroup(map, scale_name, scale_dict) ==
  IF scale_dict = <<>> THEN map
  ELSE UnitsOfGroup(
         UnitAppend(map, Head(scale_dict).k,
                    format_for_class_name(scale_name) \o <<".">> \o Head(scale_dict).k),
         scale_name, Tail(scale_dict))

RECURSIVE UnitsOfGroups(_, _)
UnitsOfGroups(map, scales_) ==
  IF scales_ = <<>> THEN map
  ELSE UnitsOfGroups(UnitsOfGroup(map, Head(scales_).k, Head(scales_).v), Tail(scales_))

\* lines 190-209: the unit index, keys sorted, every list sorted
BuildUnitMap(scales_) ==
  LET m == SortDict(UnitsOfGroups(<<>>, scales_))
  IN [i \in 1..Len(m) |-> [k |-> m[i].k, v |-> sorted(m[i].v)]]

\* sep.join(parts)
RECURSIVE JoinStr(_, _)
JoinStr(parts, sep) ==
  IF parts = <<>> THEN <<>>
  ELSE IF Len(parts) = 1 THEN parts[1]
  ELSE LET h == Len(parts) \div 2
       IN JoinStr(SubSeq(parts, 1, h), sep) \o sep \o JoinStr(SubSeq(parts, h + 1, Len(parts)), sep)

RECURSIVE ScaleMapEntries(_)
ScaleMapEntries(sensors_) ==
  IF sensors_ = <<>> THEN <<>>
  ELSE <<"    MultilevelSensorType.">> \o Head(sensors_).k \o <<": ">>
       \o format_for_class_name(Head(sensors_).v.scale) \o <<",">>
       \o ScaleMapEntries(Tail(sensors_))

\* lines 212-222
ScaleMapLine(sensors_) ==
  <<"MULTILEVEL_SENSOR_TYPE_TO_SCALE_MAP: dict[MultilevelSensorType, type[MultilevelSensorScaleType]] = {">>
  \o ScaleMapEntries(sensors_) \o <<"}">>

\* lines 225-228
UnitLine(unit_name, unit_enums) ==
  <<"UNIT_">> \o unit_name \o <<": list[MultilevelSensorScaleType] = [">>
  \o JoinStr(sorted(unit_enums), <<",">>) \o <<"]">>

\* lines 212-241: the map line, a blank line, the unit lists, the end block
TableLines(sensors_, unit_map) ==
  <<ScaleMapLine(sensors_), <<>>>>
  \o [i \in 1..Len(unit_map) |-> UnitLine(unit_map[i].k, unit_map[i].v)]
  \o EndBlockLines

\* ------------------------------------------------------------------------
\* Upstream documents and the destination file as text
\* ------------------------------------------------------------------------
\* A fetched document is a sequence of text lines: a "//" comment line, a line
\* holding one entry of the JSON object, or a line that is no JSON.
CommentLine == [kind |-> "comment", item |-> <<>>]
JunkLine    == [kind |-> "junk", item |-> <<>>]
EntryLine(e) == [kind |-> "entry", item |-> <<e>>]

\* lines 27-31
remove_comments(text) == SelectSeq(text, LAMBDA l : l.kind # "comment")

\* json.loads raises JSONDecodeError on anything that is no JSON
JsonRaises(text) == \E i \in 1..Len(text) : text[i].kind # "entry"
json_loads(text) == [i \in 1..Len(text) |-> text[i].item[1]]

\* Path.read_text opens the file with universal newlines: "\r\n" and "\r"
\* are read as "\n".
UniversalNewlines(text) ==
  LET kept == SelectSeq([i \in 1..Len(text) |-> i],
                        LAMBDA i : ~(text[i] = "\n" /\ i > 1 /\ text[i - 1] = "\r"))
  IN [k \in 1..Len(kept) |-> IF text[kept[k]] = "\r" THEN "\n" ELSE text[kept[k]]]

\* str.splitlines() ends a line at each of these (among others the model's
\* files never hold); the last line needs no terminator, and a terminator at
\* the end of the text opens no further line.
LineBoundaries == {"\n", "\r", "\f"}

splitlines(text) ==
  LET n == Len(text)
      \* where a line terminator ends ("\r\n" is one terminator)
      ends == SelectSeq([i \in 1..n |-> i],
                LAMBDA j : /\ text[j] \in LineBoundaries
                           /\ ~(text[j] = "\r" /\ j < n /\ text[j + 1] = "\n"))
      m == Len(ends)
      first(e) == IF text[e] = "\n" /\ e > 1 /\ text[e - 1] = "\r" THEN e - 1 ELSE e
      count == IF m = 0 THEN (IF n = 0 THEN 0 ELSE 1)
               ELSE IF ends[m] < n THEN m + 1 ELSE m
  IN [k \in 1..count |->
        SubSeq(text, IF k = 1 THEN 1 ELSE ends[k - 1] + 1,
                     IF k <= m THEN first(ends[k]) - 1 ELSE n)]

\* "\n".join(lines)
JoinLines(lines_) == JoinStr(lines_, <<"\n">>)

\* line.strip("\n")
RECURSIVE StripLeft(_)
StripLeft(line) == IF line # <<>> /\ Head(line) = "\n" THEN StripLeft(Tail(line)) ELSE line

RECURSIVE StripRight(_)
StripRight(line) ==
  IF line # <<>> /\ line[Len(line)] = "\n" THEN StripRight(SubSeq(line, 1, Len(line) - 1)) ELSE line

StripNewlines(line) == StripRight(StripLeft(line))

\* "**END OF AUTOGENERATED CONTENT**" in line
ContainsMarker(line) == InSeq(line, Marker)

\* next(..., -1) in place of next(...): a default instead of StopIteration
MarkerSearchWithDefault(existing) ==
  IF \E i \in 1..Len(existing) : ContainsMarker(existing[i])
  THEN [raises |-> FALSE,
        index |-> (CHOOSE i \in 1..Len(existing) :
                     ContainsMarker(existing[i])
                     /\ \A k \in 1..(i - 1) : ~ContainsMarker(existing[k])) - 1]
  ELSE [raises |-> FALSE, index |-> -1]

\* next(i for i, line in enumerate(existing) if marker in line): the 0-based
\* index of the first line that holds the marker; StopIteration when none does
MarkerSearch(existing) ==
  IF \E i \in 1..Len(existing) : ContainsMarker(existing[i])
  THEN [raises |-> FALSE,
        index |-> (CHOOSE i \in 1..Len(existing) :
                     ContainsMarker(existing[i])
                     /\ \A k \in 1..(i - 1) : ~ContainsMarker(existing[k])) - 1]
  ELSE [raises |-> TRUE, index |-> 0]

MarkerOffset == 6

\* lines 253-259: existing_const_file[start_idx:], each line stripped of "\n"
PreservedLines(existing, start_idx) ==
  IF Len(existing) > start_idx
  THEN [i \in 1..(Len(existing) - start_idx) |-> StripNewlines(existing[start_idx + i])]
  ELSE <<>>

\* ------------------------------------------------------------------------
\* State
\* ------------------------------------------------------------------------
VARIABLES
  upstream_sensor_types,   \* text served for SENSOR_TYPES_FILE_PATH
  upstream_default_scales, \* text served for DEFAULT_SCALES_FILE_PATH
  disk,                    \* CONST_FILE_PATH: [exists, text, formatted]
  pc,                      \* the statement the script is at
  sensor_types,            \* parsed sensor-type document
  default_scales,          \* parsed default-scales document
  scales,                  \* dict: group name -> dict: token -> id
  sensors,                 \* dict: token -> [id, label, scale]
  idx,                     \* position of the loop over sensor_types.items()
  lines,                   \* lines rendered so far
  unit_name_to_enum_map,   \* dict: unit token -> list of class-qualified names
  existing_const_file,     \* lines of the previous file
  manually_written_code_start_idx,
  printed,                 \* messages printed by the script itself
  exit_code,               \* -1 while running
  failed_at,               \* statement at which an exception ended the run
  env,                     \* what the subprocesses answered in this run
  run,                     \* number of the current run
  writes,                  \* write_text calls of the current run
  previous,                \* the destination file when the current run began
  steps                    \* statements completed in the current run, in order

vars == <<upstream_sensor_types, upstream_default_scales, disk, pc, sensor_types,
          default_scales, scales, sensors, idx, lines, unit_name_to_enum_map,
          existing_const_file, manually_written_code_start_idx, printed, exit_code,
          failed_at, env, run, writes, previous, steps>>

remote  == <<upstream_sensor_types, upstream_default_scales>>
parsed  == <<sensor_types, default_scales>>
tables  == <<scales, sensors, idx>>
render  == <<lines, unit_name_to_enum_map>>
spliced == <<existing_const_file, manually_written_code_start_idx>>
history == <<run, writes, previous>>

MaxRuns == 2   \* consecutive runs of the script

\* ------------------------------------------------------------------------
\* Inputs
\* ------------------------------------------------------------------------
HexKey(n) == <<"0", "x", HexDigits[(n \div 16) + 1], HexDigits[(n % 16) + 1]>>

EntryLabels == { <<"f">>, <<"c"," ","(","a",")">>, <<"c"," ","(","b",")">> }

\* scale definitions: 1..MaxEntries entries with distinct labels, keys 0x00, 0x01, ...
ScaleDefs ==
  UNION { { [i \in 1..n |-> [id |-> HexKey(i - 1), label |-> s[i]]] :
              s \in { t \in [1..n -> EntryLabels] : \A i, j \in 1..n : i # j => t[i] # t[j] } } :
          n \in 1..MaxEntries }

GroupNames == <<<<"t","a">>, <<"h","u">>, <<"l","u">>, <<"p","r">>>>

RECURSIVE GroupLists(_)
GroupLists(n) ==
  IF n = 0 THEN {<<>>}
  ELSE { Append(g, [name |-> GroupNames[n], def |-> d]) : g \in GroupLists(n - 1), d \in ScaleDefs }

ScaleDocs == UNION { GroupLists(n) : n \in 0..MaxGroups }

SymbolicRef(name) == [str |-> TRUE, text |-> <<ScalesPrefix>> \o name, def |-> <<>>]
InlineRef(d) == [str |-> FALSE, text |-> <<>>, def |-> d]

ScaleRefs == { SymbolicRef(GroupNames[1]), SymbolicRef(GroupNames[2]) }
             \cup { InlineRef(d) : d \in ScaleDefs }

SensorLabels == { <<"t","a"," ","(","a",")">>, <<"t","a"," ","(","w",")">> }

\* the first sensor has id 1 or 87 and either label, a later one id n and one label
SensorChoices(n) ==
  IF n = 1
  THEN { [id |-> k, label |-> l, scales |-> r] :
           k \in {HexKey(1), HexKey(87)}, l \in SensorLabels, r \in ScaleRefs }
  ELSE { [id |-> HexKey(n), label |-> <<"t","a"," ","(","a",")">>, scales |-> r] : r \in ScaleRefs }

RECURSIVE SensorLists(_)
SensorLists(n) ==
  IF n = 0 THEN {<<>>}
  ELSE { Append(l, c) : l \in SensorLists(n - 1), c \in SensorChoices(n) }

SensorDocs == UNION { SensorLists(n) : n \in 0..MaxSensors }

\* the text of a document: a leading comment line, one line per entry
DocText(doc) == <<CommentLine>> \o [i \in 1..Len(doc) |-> EntryLine(doc[i])]

File(text) == [exists |-> TRUE, text |-> text, formatted |-> FALSE]
NoFile == [exists |-> FALSE, text |-> <<>>, formatted |-> FALSE]

\* a previous file whose end block is complete: what follows is hand-written
FullHead  == JoinLines(<<<<"x">>>> \o EndBlockLines) \o <<"\n">>
\* a previous file cut off right after the marker line
ShortHead == JoinLines(<<<<"x">>>> \o SubSeq(EndBlockLines, 1, 3)) \o <<"\n">>
\* a previous file without the end block
BareHead  == <<"x", "\n">>

TailChars == {"x", "\n", Marker}
Tails == UNION { [1..n -> TailChars] : n \in 0..MaxTail }

PreviousFiles ==
  {NoFile} \cup { File(h \o t) : h \in {FullHead, ShortHead, BareHead}, t \in Tails }

\* documents of the runs that vary the previous file
PlainScaleDoc == << [name |-> GroupNames[1],
                     def |-> << [id |-> HexKey(0), label |-> <<"f">>] >>] >>
PlainSensorDoc ==
  << [id |-> HexKey(1), label |-> <<"t","a"," ","(","a",")">>, scales |-> SymbolicRef(GroupNames[1])],
     [id |-> HexKey(87), label |-> <<"t","a"," ","(","w",")">>,
      scales |-> InlineRef(<< [id |-> HexKey(1), label |-> <<"c"," ","(","a",")">>] >>)] >>
BadKeySensorDoc ==
  << [id |-> <<"0","x","z">>, label |-> <<"t","a">>, scales |-> SymbolicRef(GroupNames[1])] >>

SpliceSensorTexts == { DocText(PlainSensorDoc), DocText(BadKeySensorDoc), <<JunkLine>> }

RunStart(file) ==
  /\ disk = file
  /\ previous = file
  /\ pc = "fetch_sensor_types"
  /\ sensor_types = <<>>
  /\ default_scales = <<>>
  /\ scales = <<>>
  /\ sensors = <<>>
  /\ idx = 1
  /\ lines = <<>>
  /\ unit_name_to_enum_map = <<>>
  /\ existing_const_file = <<>>
  /\ manually_written_code_start_idx = 0
  /\ printed = <<>>
  /\ exit_code = -1
  /\ failed_at = ""
  /\ env = [black |-> "", git |-> "", dirty |-> FALSE]
  /\ writes = 0
  /\ steps = <<>>

\* any pair of upstream documents, a previous file in good shape
InitBuild ==
  /\ upstream_sensor_types \in { DocText(d) : d \in SensorDocs }
  /\ upstream_default_scales \in { DocText(d) : d \in ScaleDocs }
  /\ run = 1
  /\ RunStart(File(FullHead \o <<"x">>))

\* any previous file, a few pairs of upstream documents
InitSplice ==
  /\ upstream_sensor_types \in SpliceSensorTexts
  /\ upstream_default_scales = DocText(PlainScaleDoc)
  /\ run = 1
  /\ \E f \in PreviousFiles : RunStart(f)

\* ------------------------------------------------------------------------
\* The script, statement by statement
\* ------------------------------------------------------------------------
BlackWarning == "Could not run black on new file, please run it to properly format it."
DirtyMessage == "Repo is dirty and needs to be committed!"
\* (the message quotes the command in backquotes, left out of the symbol)
GitWarning == "Could not run git diff --stat on repo, please run it to determine whether constants have changed."

\* an uncaught exception: traceback, exit status 1
Raise ==
  /\ pc' = "failed"
  /\ failed_at' = pc
  /\ exit_code' = 1

Proceed(next) ==
  /\ pc' = next
  /\ steps' = Append(steps, pc)
  /\ UNCHANGED <<failed_at, exit_code>>

\* lines 67-77: requests.get raises on a network failure or a timeout
FetchSensorTypes ==
  /\ pc = "fetch_sensor_types"
  /\ \E network_ok \in BOOLEAN :
       IF ~network_ok \/ JsonRaises(remove_comments(upstream_sensor_types))
       THEN Raise /\ UNCHANGED <<sensor_types, steps>>
       ELSE /\ sensor_types' = json_loads(remove_comments(upstream_sensor_types))
            /\ Proceed("fetch_default_scales")
  /\ UNCHANGED <<remote, disk, default_scales, tables, render, spliced, printed, env, history>>

\* lines 78-88
FetchDefaultScales ==
  /\ pc = "fetch_default_scales"
  /\ \E network_ok \in BOOLEAN :
       IF ~network_ok \/ JsonRaises(remove_comments(upstream_default_scales))
       THEN Raise /\ UNCHANGED <<default_scales, steps>>
       ELSE /\ default_scales' = json_loads(remove_comments(upstream_default_scales))
            /\ Proceed("build_scales")
  /\ UNCHANGED <<remote, disk, sensor_types, tables, render, spliced, printed, env, history>>

\* lines 90-95
BuildScales ==
  /\ pc = "build_scales"
  /\ IF DefaultScalesRaise(default_scales)
     THEN Raise /\ UNCHANGED <<scales, steps>>
     ELSE /\ scales' = BuildDefaultScales(default_scales)
          /\ Proceed("sensors_loop")
  /\ UNCHANGED <<remote, disk, parsed, sensors, idx, render, spliced, printed, env, history>>

\* lines 96-110: one pass of the loop
ProcessSensor ==
  /\ pc = "sensors_loop"
  /\ idx <= Len(sensor_types)
  /\ IF SensorRaises(sensor_types[idx])
     THEN Raise /\ UNCHANGED <<tables, steps>>
     ELSE /\ sensors' = SensorsAfter(sensors, sensor_types[idx])
          /\ scales' = ScalesAfter(scales, sensor_types[idx])
          /\ idx' = idx + 1
          /\ UNCHANGED <<pc, steps, failed_at, exit_code>>
  /\ UNCHANGED <<remote, disk, parsed, render, spliced, printed, env, history>>

\* lines 112-113
SortTables ==
  /\ pc = "sensors_loop"
  /\ idx > Len(sensor_types)
  /\ scales' = SortDict(scales)
  /\ sensors' = SortDict(sensors)
  /\ Proceed("render_sensors")
  /\ UNCHANGED <<remote, disk, parsed, idx, render, spliced, printed, env, history>>

\* lines 154-188
RenderSensors ==
  /\ pc = "render_sensors"
  /\ lines' = SensorLines(sensors)
  /\ Proceed("render_scales")
  /\ UNCHANGED <<remote, disk, parsed, tables, unit_name_to_enum_map, spliced, printed,
                 env, history>>

\* lines 190-209
RenderScales ==
  /\ pc = "render_scales"
  /\ lines' = lines \o ScaleClassLines(scales)
  /\ unit_name_to_enum_map' = BuildUnitMap(scales)
  /\ Proceed("render_tables")
  /\ UNCHANGED <<remote, disk, parsed, tables, spliced, printed, env, history>>

\* lines 212-241
RenderTables ==
  /\ pc = "render_tables"
  /\ lines' = lines \o TableLines(sensors, unit_name_to_enum_map)
  /\ Proceed("read_existing")
  /\ UNCHANGED <<remote, disk, parsed, tables, unit_name_to_enum_map, spliced, printed,
                 env, history>>

\* line 243: read_text raises FileNotFoundError when there is no such file
ReadExisting ==
  /\ pc = "read_existing"
  /\ IF ~disk.exists
     THEN Raise /\ UNCHANGED <<existing_const_file, steps>>
     ELSE /\ existing_const_file' = splitlines(UniversalNewlines(disk.text))
          /\ Proceed("find_marker")
  /\ UNCHANGED <<remote, disk, parsed, tables, render, manually_written_code_start_idx,
                 printed, env, history>>

\* lines 245-252
FindMarker ==
  /\ pc = "find_marker"
  /\ IF MarkerSearch(existing_const_file).raises
     THEN Raise /\ UNCHANGED <<manually_written_code_start_idx, steps>>
     ELSE /\ manually_written_code_start_idx' =
               MarkerSearch(existing_const_file).index + MarkerOffset
          /\ Proceed("splice")
  /\ UNCHANGED <<remote, disk, parsed, tables, render, existing_const_file, printed, env,
                 history>>

\* lines 253-259
Splice ==
  /\ pc = "splice"
  /\ lines' = lines \o PreservedLines(existing_const_file, manually_written_code_start_idx)
  /\ Proceed("write")
  /\ UNCHANGED <<remote, disk, parsed, tables, unit_name_to_enum_map, spliced, printed,
                 env, history>>

\* line 261
WriteFile ==
  /\ pc = "write"
  /\ disk' = File(JoinLines(lines))
  /\ writes' = writes + 1
  /\ Proceed("which_black")
  /\ UNCHANGED <<remote, parsed, tables, render, spliced, printed, env, run, previous>>

\* What `which <program>` can answer: the path and status 0; nothing and
\* status 1; or, with a `which` that reports a miss on stderr only, nothing
\* and status 0.
WhichOutcomes ==
  { [rc |-> 0, stdout |-> <<"path">>, is |-> "found"],
    [rc |-> 1, stdout |-> <<>>, is |-> "missing"],
    [rc |-> 0, stdout |-> <<>>, is |-> "silent"] }

\* subprocess.run(..., check=True) raises CalledProcessError on a non-zero status
CheckRaises(rc) == rc # 0

\* CompletedProcess.stdout: the output when it was captured, None otherwise
Stdout(captured, output) == [none |-> ~captured, data |-> IF captured THEN output ELSE <<>>]
IsNotNone(stdout) == ~stdout.none
Truthy(stdout) == ~stdout.none /\ stdout.data # <<>>

\* line 263
WhichBlack ==
  /\ pc = "which_black"
  /\ \E r \in WhichOutcomes :
       /\ env' = [env EXCEPT !.black = r.is]
       /\ IF CheckRaises(r.rc)
          THEN Raise /\ UNCHANGED steps
          ELSE Proceed(IF Truthy(Stdout(TRUE, r.stdout)) THEN "run_black" ELSE "warn_black")
  /\ UNCHANGED <<remote, disk, parsed, tables, render, spliced, printed, history>>

\* lines 264-267: black rewrites the file in place, or fails
RunBlack ==
  /\ pc = "run_black"
  /\ \E rc \in {0, 1} :
       IF CheckRaises(rc)
       THEN Raise /\ UNCHANGED <<disk, steps>>
       ELSE /\ disk' = [disk EXCEPT !.formatted = TRUE]
            /\ Proceed("which_git")
  /\ UNCHANGED <<remote, parsed, tables, render, spliced, printed, env, history>>

\* line 269
WarnBlack ==
  /\ pc = "warn_black"
  /\ printed' = Append(printed, BlackWarning)
  /\ Proceed("which_git")
  /\ UNCHANGED <<remote, disk, parsed, tables, render, spliced, env, history>>

\* line 271
WhichGit ==
  /\ pc = "which_git"
  /\ \E r \in WhichOutcomes :
       /\ env' = [env EXCEPT !.git = r.is]
       /\ IF CheckRaises(r.rc)
          THEN Raise /\ UNCHANGED steps
          ELSE Proceed(IF Truthy(Stdout(TRUE, r.stdout)) THEN "git_diff" ELSE "warn_git")
  /\ UNCHANGED <<remote, disk, parsed, tables, render, spliced, printed, history>>

\* lines 272-280: `git diff --stat` runs without capture_output; it prints the
\* changes of the working tree, if any, to the terminal.
GitDiff ==
  /\ pc = "git_diff"
  /\ \E rc \in {0, 1}, changes \in BOOLEAN :
       /\ env' = [env EXCEPT !.dirty = changes]
       /\ IF CheckRaises(rc)
          THEN Raise /\ UNCHANGED <<printed, steps>>
          ELSE IF IsNotNone(Stdout(FALSE, IF changes THEN <<"stat">> ELSE <<>>))
          THEN /\ printed' = Append(printed, DirtyMessage)
               /\ pc' = "exited"
               /\ exit_code' = 1
               /\ steps' = Append(steps, pc)
               /\ UNCHANGED failed_at
          ELSE /\ pc' = "done"
               /\ exit_code' = 0
               /\ steps' = Append(steps, pc)
               /\ UNCHANGED <<printed, failed_at>>
  /\ UNCHANGED <<remote, disk, parsed, tables, render, spliced, history>>

\* lines 281-285
WarnGit ==
  /\ pc = "warn_git"
  /\ printed' = Append(printed, GitWarning)
  /\ pc' = "done"
  /\ exit_code' = 0
  /\ steps' = Append(steps, pc)
  /\ UNCHANGED <<remote, disk, parsed, tables, render, spliced, env, history, failed_at>>

\* The script is started again on the file it wrote, before any formatter
\* has touched it, with the upstream documents unchanged.
Rerun ==
  /\ pc \in {"done", "exited", "failed"}
  /\ run < MaxRuns
  /\ writes = 1
  /\ ~disk.formatted
  /\ run' = run + 1
  /\ previous' = disk
  /\ pc' = "fetch_sensor_types"
  /\ sensor_types' = <<>>
  /\ default_scales' = <<>>
  /\ scales' = <<>>
  /\ sensors' = <<>>
  /\ idx' = 1
  /\ lines' = <<>>
  /\ unit_name_to_enum_map' = <<>>
  /\ existing_const_file' = <<>>
  /\ manually_written_code_start_idx' = 0
  /\ printed' = <<>>
  /\ exit_code' = -1
  /\ failed_at' = ""
  /\ env' = [black |-> "", git |-> "", dirty |-> FALSE]
  /\ writes' = 0
  /\ steps' = <<>>
  /\ UNCHANGED <<remote, disk>>

Next ==
  \/ FetchSensorTypes
  \/ FetchDefaultScales
  \/ BuildScales
  \/ ProcessSensor
  \/ SortTables
  \/ RenderSensors
  \/ RenderScales
  \/ RenderTables
  \/ ReadExisting
  \/ FindMarker
  \/ Splice
  \/ WriteFile
  \/ WhichBlack
  \/ RunBlack
  \/ WarnBlack
  \/ WhichGit
  \/ GitDiff
  \/ WarnGit
  \/ Rerun

SpecBuild  == InitBuild /\ [][Next]_vars
SpecSplice == InitSplice /\ [][Next]_vars

\* ------------------------------------------------------------------------
\* The whole script as a function of its inputs (lines 90-261), for runs in
\* which nothing raises
\* ------------------------------------------------------------------------
RECURSIVE SensorLoop(_, _)
SensorLoop(doc, acc) ==
  IF doc = <<>> THEN acc
  ELSE SensorLoop(Tail(doc), [scales |-> ScalesAfter(acc.scales, Head(doc)),
                              sensors |-> SensorsAfter(acc.sensors, Head(doc))])

GeneratedText(sensor_doc, scale_doc, previous_text) ==
  LET built == SensorLoop(sensor_doc, [scales |-> BuildDefaultScales(scale_doc), sensors |-> <<>>])
      scales_ == SortDict(built.scales)
      sensors_ == SortDict(built.sensors)
      existing == splitlines(UniversalNewlines(previous_text))
  IN JoinLines(SensorLines(sensors_) \o ScaleClassLines(scales_)
               \o TableLines(sensors_, BuildUnitMap(scales_))
               \o PreservedLines(existing, MarkerSearch(existing).index + MarkerOffset))

\* ------------------------------------------------------------------------
\* Vocabulary of the properties
\* ------------------------------------------------------------------------
Done(step) == InSeq(steps, step)
Written == writes = 1

\* the text holds the marker somewhere
HoldsMarker(text) == InSeq(text, Marker)

\* the text from the start of its line k on (k counted from 0, a line ending
\* at "\n"); empty when the text has no line k
TextFromLine(text, k) ==
  IF k = 0 THEN text
  ELSE LET nl == SelectSeq([i \in 1..Len(text) |-> i], LAMBDA i : text[i] = "\n")
       IN IF Len(nl) < k THEN <<>> ELSE SubSeq(text, nl[k] + 1, Len(text))

\* the index of the first line of the text that holds the marker
FirstMarkerLine(text) ==
  LET at == CHOOSE i \in 1..Len(text) : text[i] = Marker /\ \A k \in 1..(i - 1) : text[k] # Marker
  IN Len(SelectSeq(SubSeq(text, 1, at), LAMBDA c : c = "\n"))

\* the hand-written suffix of a previous file, as it stands in that file
RawSuffix(text) == TextFromLine(text, FirstMarkerLine(text) + MarkerOffset)

\* the autogenerated lines of the current run, the end block last
AutogeneratedLines ==
  SensorLines(sensors) \o ScaleClassLines(scales) \o TableLines(sensors, unit_name_to_enum_map)

UpstreamValid ==
  /\ ~JsonRaises(remove_comments(upstream_sensor_types))
  /\ ~JsonRaises(remove_comments(upstream_default_scales))
UpstreamSensors == json_loads(remove_comments(upstream_sensor_types))
UpstreamScales  == json_loads(remove_comments(upstream_default_scales))

Token(label) == enum_name_format(label, TRUE)
DefCollides(def) ==
  \E i, j \in 1..Len(def) : i # j /\ Token(def[i].label) = Token(def[j].label)
SensorsCollide(doc) ==
  \E i, j \in 1..Len(doc) : i # j /\ SensorName(doc[i]) = SensorName(doc[j])
TokenCollision ==
  \/ SensorsCollide(UpstreamSensors)
  \/ \E i \in 1..Len(UpstreamScales) : DefCollides(UpstreamScales[i].def)
  \/ \E i \in 1..Len(UpstreamSensors) :
       ~UpstreamSensors[i].scales.str /\ DefCollides(UpstreamSensors[i].scales.def)

ReferredGroup(props) == normalize_name(Replace(props.scales.text, ScalesPrefix, <<>>))
UnresolvedReference ==
  \E i \in 1..Len(UpstreamSensors) :
    /\ UpstreamSensors[i].scales.str
    /\ ~DictHas(BuildDefaultScales(UpstreamScales), ReferredGroup(UpstreamSensors[i]))

BeforeRender == {"fetch_sensor_types", "fetch_default_scales", "build_scales", "sensors_loop"}

Reverse(q) == [i \in 1..Len(q) |-> q[Len(q) + 1 - i]]
ReorderDef(def, flip) == IF flip THEN Reverse(def) ELSE def
ReorderScales(doc, outer, inner) ==
  LET d == [i \in 1..Len(doc) |-> [doc[i] EXCEPT !.def = ReorderDef(@, inner)]]
  IN IF outer THEN Reverse(d) ELSE d
ReorderSensors(doc, outer, inner) ==
  LET d == [i \in 1..Len(doc) |-> [doc[i] EXCEPT !.scales.def = ReorderDef(@, inner)]]
  IN IF outer THEN Reverse(d) ELSE d

\* ------------------------------------------------------------------------
\* Properties
\* ------------------------------------------------------------------------

\* C1: when the previous file holds the end marker and the run has written the
\* file, the written text is the autogenerated lines (the end block last)
\* followed by the previous file's text from line i+6 on, character for
\* character, its last line terminator included, and by nothing else.
C1_SuffixRoundTrip ==
  (Written /\ previous.exists /\ HoldsMarker(previous.text)) =>
    disk.text = JoinLines(AutogeneratedLines)
                \o (IF RawSuffix(previous.text) = <<>> THEN <<>>
                    ELSE <<"\n">> \o RawSuffix(previous.text))

\* C2: a second run on the unformatted output of the first, with the same
\* upstream documents, writes the very text the first run wrote.
C2_Idempotence ==
  (run > 1 /\ Written) => disk.text = previous.text

\* C3: when two entries of the sensor-type document, or of one scale
\* definition, normalize to the same token, the run never gets past the model
\* build and writes nothing.
C3_TokenCollisionIsFatal ==
  (UpstreamValid /\ TokenCollision) => (pc \in BeforeRender \cup {"failed"} /\ writes = 0)

\* C4: when a sensor names a default scale group that the default-scales
\* document does not define, the run never gets past the model build and
\* writes nothing; once the tables are built every symbolic sensor's group is
\* in the scale-group table.
C4_UnresolvedReferenceIsFatal ==
  /\ (UpstreamValid /\ UnresolvedReference) => (pc \in BeforeRender \cup {"failed"} /\ writes = 0)
  /\ Done("sensors_loop") =>
       \A i \in 1..Len(sensor_types) :
         sensor_types[i].scales.str => DictHas(scales, ReferredGroup(sensor_types[i]))

\* C5: the file is written at most once per run, and a run that has written it
\* has fetched and parsed both documents, built the tables, rendered the lines
\* and found the marker in the previous file, in this order, before writing;
\* until then the file is as the run found it, and a run on a previous file
\* without the marker ends in an error with the file untouched.
C5_NoWriteBeforeCompleteResult ==
  /\ writes <= 1
  /\ writes = 0 => disk = previous
  /\ Written =>
       /\ SubSeq(steps, 1, 11) =
            <<"fetch_sensor_types", "fetch_default_scales", "build_scales", "sensors_loop",
              "render_sensors", "render_scales", "render_tables", "read_existing",
              "find_marker", "splice", "write">>
       /\ UpstreamValid
       /\ sensor_types = UpstreamSensors
       /\ default_scales = UpstreamScales
       /\ ~DefaultScalesRaise(default_scales)
       /\ \A i \in 1..Len(sensor_types) : ~SensorRaises(sensor_types[i])
       /\ previous.exists
       /\ HoldsMarker(previous.text)
       /\ SubSeq(lines, 1, Len(AutogeneratedLines)) = AutogeneratedLines
       /\ disk.text = JoinLines(lines)
  /\ (previous.exists /\ ~HoldsMarker(previous.text)) =>
       /\ disk = previous
       /\ pc \notin {"done", "exited"}
       /\ Done("read_existing") => pc \in {"find_marker", "failed"}
       /\ (Done("read_existing") /\ pc = "failed") =>
            (failed_at = "find_marker" /\ exit_code = 1)

\* C5, reached: a run has just written the file, changing it.
C5_Witness ==
  /\ Written
  /\ pc = "which_black"
  /\ disk # previous
  /\ Len(lines) > Len(AutogeneratedLines)

\* C6: once the tables are built, (a) a sensor with a symbolic scale reference
\* points at the group built from the default-scales entry of that name, and
\* (b) a sensor with inline scales has a group of its own in the table, one
\* token -> id entry per inline entry, and the class named for the sensor in
\* the map is the class of that group and of no other group.
C6_ScaleResolution ==
  Done("sensors_loop") =>
    \A i \in 1..Len(sensor_types) :
      LET props == sensor_types[i]
          name == SensorName(props)
      IN /\ DictHas(sensors, name)
         /\ IF props.scales.str
            THEN /\ DictGet(sensors, name).scale = ReferredGroup(props)
                 /\ \E g \in 1..Len(default_scales) :
                      /\ normalize_name(default_scales[g].name) = ReferredGroup(props)
                      /\ DictHas(scales, ReferredGroup(props))
                      /\ DictGet(scales, ReferredGroup(props))
                           = normalize_scale_definition(default_scales[g].def)
            ELSE /\ DictHas(scales, name)
                 /\ Len(DictGet(scales, name)) = Len(props.scales.def)
                 /\ \A e \in 1..Len(props.scales.def) :
                      /\ DictHas(DictGet(scales, name), Token(props.scales.def[e].label))
                      /\ DictGet(DictGet(scales, name), Token(props.scales.def[e].label))
                           = ParseHex(props.scales.def[e].id)
                 /\ format_for_class_name(DictGet(sensors, name).scale)
                      = format_for_class_name(name)
                 /\ \A g \in 1..Len(scales) :
                      format_for_class_name(scales[g].k) = format_for_class_name(name)
                        => scales[g].k = name

\* C7: once the unit index is built, the list of every token holds the
\* class-qualified name of every group that defines the token and no other,
\* no name twice, in ascending order; every token of every group has a list,
\* and the lists are in ascending order of token.
C7_UnitIndexComplete ==
  Done("render_scales") =>
    /\ \A g \in 1..Len(scales) : \A t \in 1..Len(scales[g].v) :
         DictHas(unit_name_to_enum_map, scales[g].v[t].k)
    /\ \A u \in 1..Len(unit_name_to_enum_map) :
         LET unit == unit_name_to_enum_map[u].k
             list == unit_name_to_enum_map[u].v
         IN /\ { list[a] : a \in 1..Len(list) } =
                 { format_for_class_name(scales[g].k) \o <<".">> \o unit :
                     g \in { h \in 1..Len(scales) : DictHas(scales[h].v, unit) } }
            /\ \A a, b \in 1..Len(list) : a < b => list[a] # list[b]
            /\ \A a, b \in 1..Len(list) : a < b => ~LexLess(list[b], list[a])
    /\ \A u, w \in 1..Len(unit_name_to_enum_map) :
         u < w => LexLess(unit_name_to_enum_map[u].k, unit_name_to_enum_map[w].k)

\* C8: the text a run has just written is the text the script generates from the same
\* documents with their keys in any other order (here: the sensor types, the
\* default groups and the entries of every scale definition, each in the given
\* or in the reverse order) and the same previous file.
C8_SortedDeterminism ==
  (Written /\ pc = "which_black") =>
    \A so, si, go, gi \in BOOLEAN :
      GeneratedText(ReorderSensors(sensor_types, so, si),
                    ReorderScales(default_scales, go, gi), previous.text) = disk.text

\* C9: a run that finds git, runs the diff check and is told of changes in the
\* working tree prints the "Repo is dirty" message and exits with a non-zero
\* status.
C9_DirtyTreeIsFatal ==
  (Done("git_diff") /\ env.dirty) => (InSeq(printed, DirtyMessage) /\ exit_code > 0)

\* C10: a run in which the lookup of the formatter fails (non-zero status, no
\* path printed) does not end in an error at the lookup; it goes on to the
\* warning, and once past it has printed the warning and reached the
\* version-control check.
C10_FormatterUnavailableNotFatal ==
  env.black = "missing" =>
    /\ failed_at # "which_black"
    /\ Done("which_black")
    /\ pc # "warn_black" => (InSeq(printed, BlackWarning) /\ Done("warn_black"))

====
